---- MODULE Spec2Model ----
(***************************************************************************)
(* Model of claude_sdk_wrapper.py: the JSON stdin/stdout bridge around the *)
(* agent SDK client.  One asyncio event loop runs the command loop         *)
(* (ClaudeSDKWrapper.run), the background drain tasks (receive_messages)   *)
(* and the tool handlers the engine invokes (generic_tool_handler).  The   *)
(* tasks are interleaved only at their await points, so every state of the *)
(* model is one in which every task is suspended, and every action runs    *)
(* one task from the await it is suspended on to its next await.           *)
(***************************************************************************)
EXTENDS Integers, Sequences, FiniteSets, TLC

\* ------------------------------------------------------------------ bounds
\* Lines read from stdin over the run.
MaxLines == 3
\* The engine produces an event only while fewer than MaxOut events have
\* been written since the last line was read.
MaxOut == 2
\* ClaudeSDKClient objects constructed over the run.
MaxClients == 2
\* Tool-handler invocations over the run.
MaxInv == 2
\* Largest value the event loop's clock reaches.
MaxTime == 1
\* Distinct memory addresses an args dict can live at.
NumAddr == 2

VARIABLES
    client,               \* self.client: 0 is None, else the client object
    receive_task,         \* self.receive_task: 0 is None, else the task draining that client
    tool_result_futures,  \* self.tool_result_futures: the dict's items, [key, fut]
    conn,                 \* the engine's side of each client object
    task,                 \* the state of each asyncio task running receive_messages
    inv,                  \* the invocations of generic_tool_handler, in order of start
    clock,                \* the last value asyncio.get_event_loop().time() returned
    out,                  \* the lines written to stdout since command_data was read
    pc,                   \* the await the command loop is suspended on
    command_data,         \* the line run() read last, decoded
    lines,                \* the number of lines read from stdin
    received              \* the engine's events the drain tasks took since command_data was read

vars == <<client, receive_task, tool_result_futures, conn, task, inv, clock,
          out, pc, command_data, lines, received>>

Clients == 1..MaxClients
Addrs == 1..NumAddr
NoId == <<0, 0>>
\* An identifier no invocation gets ("nope").
Nope == <<0, 0>>

\* ------------------------------------------------------------ wire events
Event(type, command, success, error, id, name, content) ==
    [type |-> type, command |-> command, success |-> success, error |-> error,
     tool_use_id |-> id, name |-> name, content |-> content]

\* {"type": "response", "command": c, "success": True}
Response(c) == Event("response", c, TRUE, "", NoId, "", <<>>)

\* {"type": "error", "command": c, "error": e}; c = "" when the key is absent
Error(c, e) == Event("error", c, FALSE, e, NoId, "", <<>>)

\* f"No pending tool invocation with ID: {tool_use_id}"
NoPendingError(id) ==
    Event("error", "tool_result", FALSE, "No pending tool invocation with ID", id, "", <<>>)

\* {"type": "tool_invocation", "tool_use_id": id, "name": tool_name, "input": args}
ToolInvocation(id) == Event("tool_invocation", "", FALSE, "", id, "external_tool", <<>>)

\* The events the engine's receive_messages() yields: an AssistantMessage
\* with its content blocks, or a message of another class.
EngineEvents ==
    { [kind |-> "AssistantMessage",
       blocks |-> <<"TextBlock", "ThinkingBlock", "ToolUseBlock", "ToolResultBlock">>],
      [kind |-> "ResultMessage", blocks |-> <<>>] }

RECURSIVE TranslateBlocks(_)
TranslateBlocks(blocks) ==
    IF blocks = <<>> THEN <<>>
    ELSE LET b == Head(blocks)
             rest == TranslateBlocks(Tail(blocks))
         IN  IF b = "TextBlock" THEN <<"text">> \o rest
             ELSE IF b = "ToolUseBlock" THEN <<"tool_use">> \o rest
             ELSE IF b = "ToolResultBlock" THEN <<"tool_result">> \o rest
             ELSE rest

\* message_data of receive_messages: "content" for an AssistantMessage,
\* "data": str(message) for any other class.
Translate(e) ==
    IF e.kind = "AssistantMessage"
    THEN Event("message", "", FALSE, "", NoId, e.kind, TranslateBlocks(e.blocks))
    ELSE Event("message", "", FALSE, "", NoId, e.kind, <<"data">>)

\* write_output by a task that resumes from an await.
write_output(data) == out' = Append(out, data)
\* write_output by the command loop before its first await since it read
\* the line: the first event since that line.
write_first(data) == out' = <<data>> /\ received' = <<>>
\* The command loop reaches its first await having written nothing.
write_nothing == out' = <<>> /\ received' = <<>>

\* ------------------------------------------------------------ input lines
Payloads ==
    { [content |-> "x", is_error |-> FALSE], [content |-> "y", is_error |-> TRUE] }
NoPayload == [content |-> "", is_error |-> FALSE]

Line(kind, command, bad, prompt, tools, id, payload) ==
    [kind |-> kind, command |-> command, bad |-> bad, initial_prompt |-> prompt,
     tools |-> tools, tool_use_id |-> id, payload |-> payload]

NoLine == Line("none", "", "", FALSE, FALSE, NoId, NoPayload)
EOFLine == Line("eof", "", "", FALSE, FALSE, NoId, NoPayload)
BlankLine == Line("blank", "", "", FALSE, FALSE, NoId, NoPayload)
\* A line json.loads rejects.
InvalidJSONLine == Line("invalid", "", "", FALSE, FALSE, NoId, NoPayload)
\* A line that is valid JSON but not an object, such as [] or 42.
NonObjectLine == Line("nonobject", "", "", FALSE, FALSE, NoId, NoPayload)

Recognized == {"create_client", "query", "interrupt", "disconnect", "tool_result"}

\* The identifiers issued so far.
IdOf(h) == <<h.addr, h.time>>
IssuedIds == { IdOf(inv[i]) : i \in 1..Len(inv) }

\* The JSON objects a caller can send in the current state.  "None" is the
\* object without a command key; bad names the ill-typed field, if any:
\* options ClaudeAgentOptions rejects, a tools entry without "name", a
\* tool_use_id that is not hashable.
Objects ==
    { Line("object", c, "", FALSE, FALSE, NoId, NoPayload) :
        c \in {"None", "bogus", "query", "interrupt", "disconnect"} }
    \cup { Line("object", "create_client", b, FALSE, FALSE, NoId, NoPayload) :
             b \in {"options", "tools"} }
    \cup { Line("object", "create_client", "", p, t, NoId, NoPayload) :
             p \in BOOLEAN, t \in BOOLEAN }
    \cup { Line("object", "tool_result", "", FALSE, FALSE, id, pl) :
             id \in IssuedIds \cup {Nope}, pl \in Payloads }
    \cup { Line("object", "tool_result", "tool_use_id", FALSE, FALSE, NoId, NoPayload) }

\* ------------------------------------------------------------------ state
\* task.done(): the task ended, because the engine's iterator ended
\* ("ended"), because the engine raised ("errored"), or cancelled.
Finished(t) == task[t] \in {"ended", "errored", "cancelled"}

NoConn == [state |-> "unused", tools |-> FALSE, queried |-> FALSE]

Init ==
    /\ client = 0
    /\ receive_task = 0
    /\ tool_result_futures = {}
    /\ conn = [c \in Clients |-> NoConn]
    /\ task = [c \in Clients |-> "none"]
    /\ inv = <<>>
    /\ clock = 0
    /\ out = <<>>
    /\ pc = "read"
    /\ command_data = NoLine
    /\ lines = 0
    /\ received = <<>>

\* ------------------------------------------------- the engine (collaborator)
\* The outcomes of the engine's calls: TRUE is a normal return, FALSE an
\* exception.  connect() may fail; query() and interrupt() may fail on a
\* connected client and do fail on one that is not connected; disconnect()
\* closes whatever is open and returns.
Connected(c) == c \in Clients /\ conn[c].state = "connected"
ConnectOutcomes == BOOLEAN
QueryOutcomes(c) == IF Connected(c) THEN BOOLEAN ELSE {FALSE}
InterruptOutcomes(c) == IF Connected(c) THEN BOOLEAN ELSE {FALSE}
DisconnectOutcomes(c) == {TRUE}

\* The connection after the engine's disconnect() returned.
Closed(c) ==
    [conn EXCEPT ![c].state = IF conn[c].state = "connected" THEN "closed" ELSE @]

\* --------------------------------------------------------- the registry
\* A lookup that ignores the key: every registered future.
future_get_any(id) == { e.fut : e \in tool_result_futures }

\* self.tool_result_futures.get(tool_use_id): the futures under that key.
future_get(id) == { e.fut : e \in { x \in tool_result_futures : x.key = id } }

\* A handler that does not ask future.done().
future_done_never(i) == FALSE

\* future.done(): the future of invocation i has a result or was cancelled.
future_done(i) == inv[i].state # "waiting"

\* A handler that announces the invocation and does not register its future.
registry_set_nothing(id, i) == tool_result_futures

\* self.tool_result_futures[tool_use_id] = future
registry_set(id, i) ==
    { e \in tool_result_futures : e.key # id } \cup { [key |-> id, fut |-> i] }

\* self.tool_result_futures.pop(tool_use_id, None)
registry_pop(id) == { e \in tool_result_futures : e.key # id }

\* The value generic_tool_handler returns to the engine for a future's result.
ToolReturn(result) ==
    [content |-> <<[type |-> "text", text |-> result.content]>>,
     isError |-> result.is_error]
NoReturn == [content |-> <<>>, isError |-> FALSE]

\* The addresses of the args dicts of the handlers that have not returned:
\* id(args) of a new invocation is none of them.
LiveAddrs == { inv[i].addr : i \in { j \in 1..Len(inv) : inv[j].state \in {"waiting", "resolved"} } }

\* ------------------------------------------------------- command handlers
\* A handler without the "if not self.client" check.
client_created_always == TRUE

\* self.client is set (the handlers' "if not self.client").
client_created == client # 0

\* The smallest client object not constructed yet.
NewClient == CHOOSE c \in Clients : conn[c].state = "unused" /\ \A d \in 1..(c - 1) : conn[d].state # "unused"

\* handle_create_client up to "await self.client.connect()".
handle_create_client(cd) ==
    IF cd.bad # ""
    THEN /\ write_first(Error("create_client", IF cd.bad = "options" THEN "TypeError" ELSE "KeyError"))
         /\ pc' = "read"
         /\ UNCHANGED <<client, receive_task, tool_result_futures, conn, task, inv, clock>>
    ELSE /\ \E c \in Clients : conn[c].state = "unused"
         /\ client' = NewClient
         /\ conn' = [conn EXCEPT ![NewClient] =
                        [state |-> "created", tools |-> cd.tools, queried |-> FALSE]]
         /\ pc' = "cc_connect"
         /\ write_nothing
         /\ UNCHANGED <<receive_task, tool_result_futures, task, inv, clock>>

\* A handler that creates the drain task whatever connect() did.
CreateClientConnect_eager(ok) ==
    /\ pc = "cc_connect"
    /\ receive_task' = client
    /\ task' = [task EXCEPT ![client] = "pending"]
    /\ IF ok
       THEN /\ conn' = [conn EXCEPT ![client].state = "connected"]
            /\ write_output(Response("create_client"))
            /\ pc' = IF command_data.initial_prompt THEN "cc_query" ELSE "read"
       ELSE /\ write_output(Error("create_client", "ConnectError"))
            /\ pc' = "read"
            /\ UNCHANGED conn
    /\ UNCHANGED <<client, tool_result_futures, inv, clock, command_data, lines, received>>

\* handle_create_client from the return of connect() to its end, or to
\* "await self.client.query(initial_prompt)".
CreateClientConnect(ok) ==
    /\ pc = "cc_connect"
    /\ IF ok
       THEN /\ conn' = [conn EXCEPT ![client].state = "connected"]
            /\ receive_task' = client
            /\ task' = [task EXCEPT ![client] = "pending"]
            /\ write_output(Response("create_client"))
            /\ pc' = IF command_data.initial_prompt THEN "cc_query" ELSE "read"
       ELSE /\ write_output(Error("create_client", "ConnectError"))
            /\ pc' = "read"
            /\ UNCHANGED <<conn, receive_task, task>>
    /\ UNCHANGED <<client, tool_result_futures, inv, clock, command_data, lines, received>>

\* handle_create_client from the return of query(initial_prompt).
CreateClientQuery(ok) ==
    /\ pc = "cc_query"
    /\ IF ok
       THEN /\ conn' = [conn EXCEPT ![client].queried = TRUE]
            /\ UNCHANGED out
       ELSE /\ write_output(Error("create_client", "QueryError"))
            /\ UNCHANGED conn
    /\ pc' = "read"
    /\ UNCHANGED <<client, receive_task, tool_result_futures, task, inv, clock,
                   command_data, lines, received>>

\* handle_query up to "await self.client.query(prompt)".
handle_query(cd) ==
    IF ~client_created
    THEN /\ write_first(Error("query", "Client not created"))
         /\ pc' = "read"
         /\ UNCHANGED <<client, receive_task, tool_result_futures, conn, task, inv, clock>>
    ELSE /\ pc' = "q_query"
         /\ write_nothing
         /\ UNCHANGED <<client, receive_task, tool_result_futures, conn, task, inv, clock>>

\* handle_query from the return of query(prompt).
QueryReturn(ok) ==
    /\ pc = "q_query"
    /\ IF ok
       THEN /\ conn' = [conn EXCEPT ![client].queried = TRUE]
            /\ write_output(Response("query"))
       ELSE /\ write_output(Error("query", "QueryError"))
            /\ UNCHANGED conn
    /\ pc' = "read"
    /\ UNCHANGED <<client, receive_task, tool_result_futures, task, inv, clock,
                   command_data, lines, received>>

\* handle_interrupt up to "await self.client.interrupt()".
handle_interrupt(cd) ==
    IF ~client_created
    THEN /\ write_first(Error("interrupt", "Client not created"))
         /\ pc' = "read"
         /\ UNCHANGED <<client, receive_task, tool_result_futures, conn, task, inv, clock>>
    ELSE /\ pc' = "i_interrupt"
         /\ write_nothing
         /\ UNCHANGED <<client, receive_task, tool_result_futures, conn, task, inv, clock>>

\* handle_interrupt from the return of interrupt().
InterruptReturn(ok) ==
    /\ pc = "i_interrupt"
    /\ IF ok
       THEN write_output(Response("interrupt"))
       ELSE write_output(Error("interrupt", "InterruptError"))
    /\ pc' = "read"
    /\ UNCHANGED <<client, receive_task, tool_result_futures, conn, task, inv, clock,
                   command_data, lines, received>>

\* "self.receive_task and not self.receive_task.done()"
receive_task_running == receive_task # 0 /\ ~Finished(receive_task)

\* handle_disconnect up to "await self.receive_task" (after cancel()) or,
\* with no running task, up to "await self.client.disconnect()".
handle_disconnect(cd) ==
    IF ~client_created
    THEN /\ write_first(Error("disconnect", "Client not created"))
         /\ pc' = "read"
         /\ UNCHANGED <<client, receive_task, tool_result_futures, conn, task, inv, clock>>
    ELSE /\ IF receive_task_running
            THEN /\ task' = [task EXCEPT ![receive_task] = "cancelling"]
                 /\ pc' = "d_await_task"
            ELSE /\ pc' = "d_disconnect"
                 /\ UNCHANGED task
         /\ write_nothing
         /\ UNCHANGED <<client, receive_task, tool_result_futures, conn, inv, clock>>

\* handle_disconnect from the end of the cancelled task ("except
\* asyncio.CancelledError: pass") to "await self.client.disconnect()".
DisconnectTaskAwaited ==
    /\ pc = "d_await_task"
    /\ Finished(receive_task)
    /\ pc' = "d_disconnect"
    /\ UNCHANGED <<client, receive_task, tool_result_futures, conn, task, inv, clock,
                   out, command_data, lines, received>>

\* A handler that sets self.client to None once disconnect() returned.
DisconnectReturn_clearing(ok) ==
    /\ pc = "d_disconnect"
    /\ IF ok
       THEN /\ conn' = Closed(client)
            /\ client' = 0
            /\ write_output(Response("disconnect"))
       ELSE /\ write_output(Error("disconnect", "DisconnectError"))
            /\ UNCHANGED <<conn, client>>
    /\ pc' = "read"
    /\ UNCHANGED <<receive_task, tool_result_futures, task, inv, clock,
                   command_data, lines, received>>

\* handle_disconnect from the return of disconnect().
DisconnectReturn(ok) ==
    /\ pc = "d_disconnect"
    /\ IF ok
       THEN /\ conn' = Closed(client)
            /\ write_output(Response("disconnect"))
       ELSE /\ write_output(Error("disconnect", "DisconnectError"))
            /\ UNCHANGED conn
    /\ pc' = "read"
    /\ UNCHANGED <<client, receive_task, tool_result_futures, task, inv, clock,
                   command_data, lines, received>>

\* handle_tool_result: it has no await, so it runs whole.
handle_tool_result(cd) ==
    /\ IF cd.bad # ""
       THEN /\ write_first(Error("tool_result", "TypeError"))
            /\ UNCHANGED inv
       ELSE IF \E i \in future_get(cd.tool_use_id) : ~future_done(i)
       THEN /\ \E i \in future_get(cd.tool_use_id) :
                 /\ ~future_done(i)
                 /\ inv' = [inv EXCEPT ![i].state = "resolved", ![i].result = cd.payload]
            /\ write_first(Response("tool_result"))
       ELSE /\ write_first(NoPendingError(cd.tool_use_id))
            /\ UNCHANGED inv
    /\ pc' = "read"
    /\ UNCHANGED <<client, receive_task, tool_result_futures, conn, task, clock>>

\* process_command: the dispatch on command_data.get("command").
process_command(cd) ==
    IF cd.command = "create_client" THEN handle_create_client(cd)
    ELSE IF cd.command = "query" THEN handle_query(cd)
    ELSE IF cd.command = "interrupt" THEN handle_interrupt(cd)
    ELSE IF cd.command = "disconnect" THEN handle_disconnect(cd)
    ELSE IF cd.command = "tool_result" THEN handle_tool_result(cd)
    ELSE /\ write_first(Error("", IF cd.command = "None" THEN "Unknown command: None"
                                   ELSE "Unknown command: bogus"))
         /\ pc' = "read"
         /\ UNCHANGED <<client, receive_task, tool_result_futures, conn, task, inv, clock>>

\* -------------------------------------------------------- the command loop
\* run() after its loop: cancel the receive task, not awaiting it, and
\* disconnect the client if there is one.
CleanUp ==
    /\ task' = IF receive_task_running
               THEN [task EXCEPT ![receive_task] = "cancelling"] ELSE task
    /\ pc' = IF client_created THEN "x_disconnect" ELSE "exited"
    /\ UNCHANGED <<client, receive_task, tool_result_futures, conn, inv, clock>>

\* readline() returned "": EOF.
RunEOF ==
    /\ pc = "read"
    /\ lines < MaxLines
    /\ lines' = lines + 1
    /\ command_data' = EOFLine
    /\ write_nothing
    /\ CleanUp

\* A line that is empty once stripped: "continue".
RunBlank ==
    /\ pc = "read"
    /\ lines < MaxLines
    /\ lines' = lines + 1
    /\ command_data' = BlankLine
    /\ write_nothing
    /\ UNCHANGED <<client, receive_task, tool_result_futures, conn, task, inv, clock, pc>>

\* A loop whose JSONDecodeError is caught by the outer "except Exception",
\* which breaks.
RunInvalidJSON_break ==
    /\ pc = "read"
    /\ lines < MaxLines
    /\ lines' = lines + 1
    /\ command_data' = InvalidJSONLine
    /\ write_first(Error("", "Invalid JSON"))
    /\ CleanUp

\* json.loads raised JSONDecodeError.
RunInvalidJSON ==
    /\ pc = "read"
    /\ lines < MaxLines
    /\ lines' = lines + 1
    /\ command_data' = InvalidJSONLine
    /\ write_first(Error("", "Invalid JSON"))
    /\ pc' = "read"
    /\ UNCHANGED <<client, receive_task, tool_result_futures, conn, task, inv, clock>>

\* json.loads returned a value that is no dict: command_data.get raises
\* AttributeError out of process_command, the outer "except Exception"
\* writes it and breaks.
RunNonObject ==
    /\ pc = "read"
    /\ lines < MaxLines
    /\ lines' = lines + 1
    /\ command_data' = NonObjectLine
    /\ write_first(Error("", "AttributeError"))
    /\ CleanUp

\* json.loads returned a dict: process_command, up to the handler's first await.
RunCommand(cd) ==
    /\ pc = "read"
    /\ lines < MaxLines
    /\ lines' = lines + 1
    /\ command_data' = cd
    /\ process_command(cd)

\* run() from the return of the final disconnect(): run() returns, or the
\* exception leaves it; the process exits either way.
ExitDisconnect(ok) ==
    /\ pc = "x_disconnect"
    /\ conn' = IF ok THEN Closed(client) ELSE conn
    /\ pc' = "exited"
    /\ UNCHANGED <<client, receive_task, tool_result_futures, task, inv, clock, out,
                   command_data, lines, received>>

\* ---------------------------------------------------------- the drain task
\* A drain loop that writes AssistantMessages only and drops the rest.
DrainMessage_dropping(t, e) ==
    /\ pc # "exited"
    /\ task[t] = "pending"
    /\ Connected(t)
    /\ Len(out) < MaxOut
    /\ received' = Append(received, e)
    /\ out' = IF e.kind = "AssistantMessage" THEN Append(out, Translate(e)) ELSE out
    /\ UNCHANGED <<client, receive_task, tool_result_futures, conn, task, inv, clock,
                   pc, command_data, lines>>

\* receive_messages: one message of the engine, translated and written.
DrainMessage(t, e) ==
    /\ pc # "exited"
    /\ task[t] = "pending"
    /\ Connected(t)
    /\ Len(out) < MaxOut
    /\ received' = Append(received, e)
    /\ write_output(Translate(e))
    /\ UNCHANGED <<client, receive_task, tool_result_futures, conn, task, inv, clock,
                   pc, command_data, lines>>

\* A drain loop without its "except Exception": the task ends with the
\* engine's exception and nothing is written.
DrainError_uncaught(t) ==
    /\ pc # "exited"
    /\ task[t] = "pending"
    /\ Len(out) < MaxOut
    /\ task' = [task EXCEPT ![t] = "errored"]
    /\ UNCHANGED <<client, receive_task, tool_result_futures, conn, inv, clock, out,
                   pc, command_data, lines, received>>

\* receive_messages: the engine raised; "except Exception" writes it and
\* the task ends.
DrainError(t) ==
    /\ pc # "exited"
    /\ task[t] = "pending"
    /\ Len(out) < MaxOut
    /\ write_output(Error("", "EngineError"))
    /\ task' = [task EXCEPT ![t] = "errored"]
    /\ UNCHANGED <<client, receive_task, tool_result_futures, conn, inv, clock,
                   pc, command_data, lines, received>>

\* receive_messages: the engine's iterator ended; the task ends.
DrainEnd(t) ==
    /\ pc # "exited"
    /\ task[t] = "pending"
    /\ task' = [task EXCEPT ![t] = "ended"]
    /\ UNCHANGED <<client, receive_task, tool_result_futures, conn, inv, clock, out,
                   pc, command_data, lines, received>>

\* receive_messages: CancelledError is thrown in at the task's await; it
\* is no Exception, so nothing is written and the task ends cancelled.
DrainCancelled(t) ==
    /\ pc # "exited"
    /\ task[t] = "cancelling"
    /\ task' = [task EXCEPT ![t] = "cancelled"]
    /\ UNCHANGED <<client, receive_task, tool_result_futures, conn, inv, clock, out,
                   pc, command_data, lines, received>>

\* ------------------------------------------------------- the tool handlers
\* generic_tool_handler up to "await future": the engine calls the tool of
\* a connected client with a turn under way.  The identifier is made of
\* id(args) and the loop's clock, which never runs backwards.
ToolInvoke(c, a, t) ==
    /\ pc # "exited"
    /\ Connected(c) /\ conn[c].tools /\ conn[c].queried
    /\ Len(inv) < MaxInv
    /\ Len(out) < MaxOut
    /\ a \notin LiveAddrs
    /\ t >= clock /\ t <= MaxTime /\ t <= clock + 1
    /\ clock' = t
    /\ write_output(ToolInvocation(<<a, t>>))
    /\ inv' = Append(inv, [addr |-> a, time |-> t, client |-> c, state |-> "waiting",
                           result |-> NoPayload, returned |-> NoReturn])
    /\ tool_result_futures' = registry_set(<<a, t>>, Len(inv) + 1)
    /\ UNCHANGED <<client, receive_task, conn, task, pc, command_data, lines, received>>

\* generic_tool_handler from "await future", whose result is set: it
\* returns the result to the engine; "finally" pops the entry.
ToolReturns(i) ==
    /\ pc # "exited"
    /\ inv[i].state = "resolved"
    /\ inv' = [inv EXCEPT ![i].state = "returned", ![i].returned = ToolReturn(inv[i].result)]
    /\ tool_result_futures' = registry_pop(IdOf(inv[i]))
    /\ UNCHANGED <<client, receive_task, conn, task, clock, out, pc, command_data, lines, received>>

\* generic_tool_handler cancelled by the engine at "await future":
\* "finally" pops the entry.
ToolCancelled(i) ==
    /\ pc # "exited"
    /\ inv[i].state = "waiting"
    /\ inv' = [inv EXCEPT ![i].state = "cancelled"]
    /\ tool_result_futures' = registry_pop(IdOf(inv[i]))
    /\ UNCHANGED <<client, receive_task, conn, task, clock, out, pc, command_data, lines, received>>

\* ------------------------------------------------------ the specification
Next ==
    \/ RunEOF
    \/ RunBlank
    \/ RunInvalidJSON
    \/ RunNonObject
    \/ \E cd \in Objects : RunCommand(cd)
    \/ \E ok \in ConnectOutcomes : CreateClientConnect(ok)
    \/ \E ok \in QueryOutcomes(client) : CreateClientQuery(ok)
    \/ \E ok \in QueryOutcomes(client) : QueryReturn(ok)
    \/ \E ok \in InterruptOutcomes(client) : InterruptReturn(ok)
    \/ DisconnectTaskAwaited
    \/ \E ok \in DisconnectOutcomes(client) : DisconnectReturn(ok)
    \/ \E ok \in DisconnectOutcomes(client) : ExitDisconnect(ok)
    \/ \E t \in Clients, e \in EngineEvents : DrainMessage(t, e)
    \/ \E t \in Clients : DrainError(t)
    \/ \E t \in Clients : DrainEnd(t)
    \/ \E t \in Clients : DrainCancelled(t)
    \/ \E c \in Clients, a \in Addrs, t \in 0..MaxTime : ToolInvoke(c, a, t)
    \/ \E i \in 1..Len(inv) : ToolReturns(i)
    \/ \E i \in 1..Len(inv) : ToolCancelled(i)

Spec == Init /\ [][Next]_vars

\* ================================================================ claims
\* The events of out that answer a command named c.
Answers(c) ==
    { k \in 1..Len(out) : out[k].type \in {"response", "error"} /\ out[k].command = c }

\* The step reads a line from stdin, and it is a JSON object.
ReadsCommand(c) ==
    /\ lines' = lines + 1
    /\ command_data'.kind = "object"
    /\ command_data'.command = c

\* The invocations announced under identifier id whose future has no result.
PendingUnder(id) ==
    { i \in 1..Len(inv) : IdOf(inv[i]) = id /\ inv[i].state = "waiting" }

\* No create_client succeeded before the one command_data holds.
NoPriorSession ==
    \A d \in Clients :
        conn[d].state \in {"connected", "closed"} => (d = client /\ command_data.bad = "")

\* ---------------------------------------------------------------- C1
\* Invocation i was announced before the line command_data holds was read.
AnnouncedBefore(i) ==
    \A k \in 1..Len(out) : out[k] # ToolInvocation(IdOf(inv[i]))

\* C1: once the response to a disconnect command is written, no tool
\* invocation of the disconnected client that was announced before the
\* command was read is still waiting for its result: each was resolved
\* before the response.
C1_DisconnectResolvesPending ==
    \A k \in 1..Len(out) :
        out[k] = Response("disconnect") =>
            \A i \in 1..Len(inv) :
                (inv[i].client = client /\ AnnouncedBefore(i)) => inv[i].state # "waiting"

\* ---------------------------------------------------------------- C2
\* C2: a tool_result command for identifier X, with an invocation pending
\* under X, gives X's future that command's content and is_error and
\* changes no other invocation; an invocation's future gets a result only
\* in a step that handles a tool_result command carrying its identifier;
\* and the handler returns to the engine the result its future was given.
C2_ToolResultUnblocksItsInvocation ==
    [][ /\ (ReadsCommand("tool_result") /\ command_data'.bad = ""
              /\ PendingUnder(command_data'.tool_use_id) # {})
           => /\ Cardinality(PendingUnder(command_data'.tool_use_id)) = 1
              /\ \E i \in PendingUnder(command_data'.tool_use_id) :
                    inv' = [inv EXCEPT ![i].state = "resolved",
                                       ![i].result = command_data'.payload]
              /\ out' = <<Response("tool_result")>>
        /\ \A j \in 1..Len(inv) :
              (inv[j].state = "waiting" /\ inv'[j].state = "resolved")
              => /\ ReadsCommand("tool_result")
                 /\ command_data'.tool_use_id = IdOf(inv[j])
        /\ \A j \in 1..Len(inv) :
              (inv[j].state = "resolved" /\ inv'[j].state # "resolved")
              => /\ inv'[j].state = "returned"
                 /\ inv'[j].returned = ToolReturn(inv[j].result)
      ]_vars

\* Two invocations were pending; the later one got its tool_result first
\* and returned it to the engine, and the earlier one is still waiting.
C2_Witness ==
    \E i, j \in 1..Len(inv) :
        /\ i < j
        /\ inv[i].state = "waiting"
        /\ inv[j].state = "returned"
        /\ inv[j].returned = ToolReturn([content |-> "y", is_error |-> TRUE])

\* ---------------------------------------------------------------- C3
\* C3: a tool_result command whose identifier has no pending invocation
\* (never issued, or already resolved) writes exactly the "No pending tool
\* invocation with ID" error for that identifier and changes neither an
\* invocation nor the registry; and a future that has a result keeps it.
C3_UnknownToolResultRejected ==
    [][ /\ (ReadsCommand("tool_result") /\ command_data'.bad = ""
              /\ PendingUnder(command_data'.tool_use_id) = {})
           => /\ out' = <<NoPendingError(command_data'.tool_use_id)>>
              /\ pc' = "read"
              /\ UNCHANGED <<inv, tool_result_futures>>
        /\ \A j \in 1..Len(inv) :
              inv[j].state # "waiting" => inv'[j].result = inv[j].result
      ]_vars

\* A second tool_result for an invocation whose future already has its
\* result, the handler not having resumed yet, was answered with the error.
C3_Witness ==
    /\ pc = "read"
    /\ command_data.command = "tool_result"
    /\ out # <<>> /\ out[1] = NoPendingError(command_data.tool_use_id)
    /\ \E i \in 1..Len(inv) :
          /\ IdOf(inv[i]) = command_data.tool_use_id
          /\ inv[i].state = "resolved"
          /\ inv[i].result # command_data.payload

\* ---------------------------------------------------------------- C4
\* C4: when the handler of a recognized command has returned, exactly one
\* response or error event for that command was written since the command
\* was read.
C4_OneAnswerPerCommand ==
    (pc = "read" /\ command_data.command \in Recognized)
    => Cardinality(Answers(command_data.command)) = 1

\* ---------------------------------------------------------------- C5
\* C5: for a create_client with no session before it, every message and
\* tool_invocation event comes after an answer to the create_client, and
\* once the handler has returned there is exactly one such answer.
C5_CreateAnsweredOnceFirst ==
    (command_data.command = "create_client" /\ NoPriorSession)
    => /\ \A k \in 1..Len(out) :
             out[k].type \in {"message", "tool_invocation"}
             => \E a \in Answers("create_client") : a < k
       /\ pc = "read" => Cardinality(Answers("create_client")) = 1

NoSessionAnswer(cd) ==
    IF cd.command # "tool_result" THEN Error(cd.command, "Client not created")
    ELSE IF cd.bad # "" THEN Error("tool_result", "TypeError")
    ELSE NoPendingError(cd.tool_use_id)

C7_FailedCreateLeavesNoSession ==
    (/\ pc = "read"
     /\ command_data.command = "create_client"
     /\ receive_task = 0
     /\ \E k \in Answers("create_client") : out[k].type = "error")
    => client = 0

\* ---------------------------------------------------------------- C8
\* C8: a line that is not JSON, and an object whose command is absent or
\* unrecognized, write one error event (naming the unknown command), leave
\* the loop at its readline, and change neither the session nor the
\* registry nor any task.
C8_BadLineReported ==
    [][ /\ (lines' = lines + 1 /\ command_data'.kind = "invalid")
           => /\ out' = <<Error("", "Invalid JSON")>>
              /\ pc' = "read"
              /\ UNCHANGED <<client, receive_task, tool_result_futures, conn, task, inv>>
        /\ \A c \in {"None", "bogus"} :
              ReadsCommand(c)
              => /\ out' = <<Error("", IF c = "None" THEN "Unknown command: None"
                                       ELSE "Unknown command: bogus")>>
                 /\ pc' = "read"
                 /\ UNCHANGED <<client, receive_task, tool_result_futures, conn, task, inv>>
      ]_vars

\* With a session open and a tool invocation pending, an unrecognized
\* command was answered and the loop is back at its readline, with a line
\* of input still to come.
C8_Witness ==
    /\ pc = "read"
    /\ command_data.command = "bogus"
    /\ out # <<>> /\ out[1] = Error("", "Unknown command: bogus")
    /\ Connected(client)
    /\ \E i \in 1..Len(inv) : inv[i].state = "waiting"
    /\ lines < MaxLines

\* ---------------------------------------------------------------- C9
\* C9: the command loop ends only on EOF.
C9_OnlyEOFEndsLoop ==
    pc \in {"x_disconnect", "exited"} => command_data.kind = "eof"

IsMessage(e) == e.type = "message"
Messages(s) == SelectSeq(s, IsMessage)

\* C11: the message events written since the last line was read are, one
\* for one and in the same order, the translations of the events the drain
\* tasks received from the engine since then, whatever responses and
\* tool_invocation events were written in between.
C11_EveryEventForwardedInOrder ==
    /\ Len(Messages(out)) = Len(received)
    /\ \A k \in 1..Len(received) : Messages(out)[k] = Translate(received[k])

\* Two different engine events were received while a command was being
\* handled and their two messages were written in that order, followed by
\* the command's response.
C11_Witness ==
    /\ Len(received) = 2
    /\ received[1].kind = "ResultMessage" /\ received[2].kind = "AssistantMessage"
    /\ Len(out) = 3
    /\ out[1].name = "ResultMessage" /\ out[2].name = "AssistantMessage"
    /\ out[2].content = <<"text", "tool_use", "tool_result">>
    /\ out[3] = Response("query")

\* ---------------------------------------------------------------- C12
\* A create_client succeeded at some point of the run.
SomeCreateSucceeded == \E c \in Clients : conn[c].state \in {"connected", "closed"}

\* C12: once a disconnect command, read after a create_client succeeded,
\* has been answered with its success response, no event is written after
\* that response until the next line is read.
C12_NothingAfterDisconnect ==
    (command_data.command = "disconnect" /\ SomeCreateSucceeded)
    => \A k \in 1..Len(out) : out[k] = Response("disconnect") => k = Len(out)

\* ---------------------------------------------------------------- C13
\* C13: when run() has returned, no tool invocation is still waiting for
\* its result.
C13_NoAwaiterLeftAtExit ==
    pc = "exited" => \A i \in 1..Len(inv) : inv[i].state # "waiting"

\* ---------------------------------------------------------------- C14
\* C14: at most one connection is open and at most one drain task is
\* running.
C14_AtMostOneSession ==
    /\ Cardinality({ c \in Clients : Connected(c) }) <= 1
    /\ Cardinality({ t \in Clients : task[t] = "pending" }) <= 1

\* ---------------------------------------------------------------- C15
\* C15: the engine's disconnect() is never invoked on a connection that a
\* disconnect() already closed.
C15_DisconnectedOnce ==
    pc \in {"d_disconnect", "x_disconnect"} => conn[client].state # "closed"

\* ---------------------------------------------------------------- C16
\* C16: no two invocations of the run were given the same identifier.
C16_IdentifiersNeverReused ==
    \A i, j \in 1..Len(inv) : i # j => IdOf(inv[i]) # IdOf(inv[j])

\* ---------------------------------------------------------------- C17
\* C17: a drain task exists only for a client whose connect() returned
\* successfully; it is created in the step in which the connect() of the
\* create_client being handled returns successfully and in no other; and
\* a create_client whose connect() fails creates no task and leaves the
\* drain task handle as it was.
C17_DrainStartsAfterConnect ==
    /\ [](/\ \A t \in Clients : task[t] # "none" => conn[t].state \in {"connected", "closed"}
          /\ pc = "cc_connect" => task[client] = "none")
    /\ [][ /\ \A t \in Clients :
                 (task[t] = "none" /\ task'[t] # "none")
                 => /\ pc = "cc_connect" /\ t = client
                    /\ conn[t].state = "created" /\ conn'[t].state = "connected"
                    /\ receive_task' = t
           /\ (pc = "cc_connect" /\ pc' # pc /\ conn'[client].state # "connected")
              => /\ UNCHANGED <<task, receive_task>>
                 /\ out' = Append(out, Error("create_client", "ConnectError"))
         ]_vars

\* With the drain task of an earlier client running, the connect() of a
\* second create_client failed: the new client has no drain task.
C17_Witness ==
    /\ pc = "read"
    /\ command_data.command = "create_client"
    /\ \E k \in 1..Len(out) : out[k] = Error("create_client", "ConnectError")
    /\ conn[client].state = "created" /\ task[client] = "none"
    /\ receive_task # 0 /\ receive_task # client /\ task[receive_task] = "pending"

\* ---------------------------------------------------------------- C18
\* C18: whenever the engine's disconnect() is being awaited, by the
\* disconnect handler or by the clean-up of run(), the drain task the
\* wrapper holds has terminated.
C18_DrainStoppedBeforeDisconnect ==
    pc \in {"d_disconnect", "x_disconnect"} => (receive_task = 0 \/ Finished(receive_task))

\* ---------------------------------------------------------------- C19
\* The invocations whose handler has not returned.
Live == { i \in 1..Len(inv) : inv[i].state \in {"waiting", "resolved"} }

\* C19: in every state in which the tasks are suspended, the identifier
\* of every announced invocation whose handler has not returned is a key
\* of the registry, holding that invocation's future, and every key of the
\* registry is the identifier of such an invocation; so a tool_result for
\* a waiting invocation always finds its future.
C19_AnnouncedIffRegistered ==
    /\ \A i \in Live : [key |-> IdOf(inv[i]), fut |-> i] \in tool_result_futures
    /\ \A e \in tool_result_futures : e.fut \in Live /\ e.key = IdOf(inv[e.fut])
    /\ \A i \in 1..Len(inv) : inv[i].state = "waiting" => future_get(IdOf(inv[i])) = {i}

\* The command loop is at its readline with a line still to come, and the
\* invocation announced by the last event written is waiting, registered.
C19_Witness ==
    /\ pc = "read" /\ lines < MaxLines
    /\ out # <<>>
    /\ \E i \in 1..Len(inv) :
          /\ out[Len(out)] = ToolInvocation(IdOf(inv[i]))
          /\ inv[i].state = "waiting"
          /\ [key |-> IdOf(inv[i]), fut |-> i] \in tool_result_futures

\* ---------------------------------------------------------------- C20
\* C20: no step sets self.client back to None; the drain task handle is
\* set only while self.client is; no "Client not created" error is written
\* while self.client is set; and a query, interrupt or disconnect read
\* while self.client is set, also after a disconnect closed the
\* connection, is forwarded to the client.
C20_ClientHandleNeverCleared ==
    /\ [](/\ receive_task # 0 => client # 0
          /\ client # 0 => \A k \in 1..Len(out) : out[k].error # "Client not created")
    /\ [][ /\ client # 0 => client' # 0
           /\ \A c \in {"query", "interrupt", "disconnect"} :
                 (client # 0 /\ ReadsCommand(c))
                 => /\ client' = client
                    /\ out' = <<>>
                    /\ pc' = IF c = "query" THEN "q_query"
                             ELSE IF c = "interrupt" THEN "i_interrupt"
                             ELSE IF receive_task_running THEN "d_await_task"
                             ELSE "d_disconnect"
         ]_vars

\* After a disconnect closed the connection, a query was forwarded to the
\* disconnected client and answered with the engine's error.
C20_Witness ==
    /\ pc = "read"
    /\ command_data.command = "query"
    /\ client # 0 /\ conn[client].state = "closed"
    /\ out = <<Error("query", "QueryError")>>

====
